---- MODULE Spec2Model ----
(***************************************************************************)
(* State-machine model of the OmicsCodex harvesting scripts:               *)
(*   wikicrow : src/src/wikicrow/scraper_pyppeteer.py (pyppeteer pages)    *)
(*   scraper  : src/src/scraper/scraper.py            (selenium pages)     *)
(*   biogrid  : src/src/biogrid/biogrid_scraper.py    (interaction CSV)    *)
(*   mygene   : src/src/mygene_info/download_genes.py (batch metadata)     *)
(* One behaviour is one script (prog) run over an identifier list and its  *)
(* directories (TwoRuns: run twice over them).  The asyncio scripts are    *)
(* cooperative: a coroutine runs without interruption from one await to    *)
(* the next; cur names the coroutine that is between two awaits.           *)
(***************************************************************************)
EXTENDS Integers, Sequences, FiniteSets, TLC

VARIABLES
    prog,          \* the script that is run
    max_retries,   \* fetch_html's max_retries parameter
    genes,         \* gene_df: the identifier list, genes[t] is task t's gene_name
    run,           \* 1 = first run of the script, 2 = the run after it
    last_end,      \* how main() of the run before this one ended, "none" in run 1
    main,          \* main(): "running", "done", "failed"
    cur,           \* the task running between two awaits, 0 when all are suspended
    limit,         \* N of Semaphore(N)
    sem,           \* asyncio.Semaphore._value
    pc,            \* position of each process_gene coroutine
    attempt,       \* fetch_html: the loop variable
    browser,       \* fetch_html: the rendering session of the current attempt
    result,        \* fetch_html: what the attempt is about to return, or "retry"
    html_content,  \* process_gene: html_content
    html_file,     \* html_dir/<gene>.html
    json_file,     \* json_dir/<gene>.json
    csv_file,      \* output_dir/<gene>_interactions.csv
    start_files,   \* the three directories as they were when this run started
    tries,         \* history: fetch attempts started by each task in this run
    naps,          \* history: the backoff sleeps of each task in this run, in seconds
    oplog,         \* history: the operations each task performed in this run
    outcome,       \* history: how each task's pipeline ended
    seen,          \* history: what the cache check of each task found on disk
    m_i,           \* mygene main(): index of the current batch
    m_pc,          \* mygene: position in main()/process_genes()/fetch_gene_data()
    m_attempt,     \* mygene fetch_gene_data: the loop variable
    m_since,       \* mygene: ticks since last_request_time['global'], saturating
    m_hist,        \* mygene history: one record per fetch_gene_data call
    f_in,          \* a function called on its own: the content it is given
    f_out,         \* a function called on its own: what it returned
    tsv_data       \* biogrid: the rows of the last response read (their scores)

pageVars == <<attempt, browser, result, html_content>>
histVars == <<tries, naps, oplog, outcome, seen>>
fileVars == <<html_file, json_file, csv_file>>
cfgVars  == <<prog, max_retries, limit, genes, run, last_end, start_files>>
mVars    == <<m_i, m_pc, m_attempt, m_since, m_hist, f_in, f_out, tsv_data>>
vars == <<cfgVars, main, cur, sem, pc, pageVars, fileVars, histVars, mVars>>

----------------------------------------------------------------------------
(* Bounds of the model *)

NTasks == 2      \* rows of gene_df
MaxRetries == 2  \* largest max_retries given to fetch_html
MaxLimit == 2    \* largest N of Semaphore(N), scaled down from 10 / 8
BatchSize == 1   \* mygene batch_size, scaled down from 10
MaxBackoffTries == 6  \* largest max_retries given to fetch_html in RetryLoops
MaxRows == 2     \* rows of one BioGRID response

Tasks == 1..NTasks
Genes == {"BRCA1", "LOWDATA"}
PageProgs == {"wikicrow", "scraper"}
AsyncProgs == PageProgs \cup {"biogrid"}
Programs == AsyncProgs \cup {"mygene"}

----------------------------------------------------------------------------
(* Page content, abstracted to what BeautifulSoup is asked about it *)

SectionOrder ==
    << "Info", "Gene Position (hg19)", "Related Genes", "Overview", "Structure",
       "Functions", "Interactions", "Clinical Significance", "References" >>

Sections == {SectionOrder[i] : i \in 1..Len(SectionOrder)}

SectionIndex(s) == CHOOSE i \in 1..Len(SectionOrder) : SectionOrder[i] = s

\* kind: "absent" (no file), "unreadable" (open/read raises), "none" (Python None),
\* "empty" (""), "retry" (no value yet), "page" (markup).
Doc(k) ==
    [kind |-> k, warn_div |-> FALSE, warn_h2 |-> FALSE, sections |-> {},
     fault_at |-> "none", unparsable |-> FALSE]

PyNone == "none"
Absent == "absent"

Page(wd, wh, secs, fa, up) ==
    [kind |-> "page", warn_div |-> wd, warn_h2 |-> wh, sections |-> secs,
     fault_at |-> fa, unparsable |-> up]

PFull == Page(FALSE, FALSE, Sections, "none", FALSE)
PWarnDiv == Page(TRUE, FALSE, Sections, "none", FALSE)
PWarnH2 == Page(FALSE, TRUE, {}, "none", FALSE)
PNoInfo == Page(FALSE, FALSE, {"Overview", "References"}, "none", FALSE)
PFaulty == Page(FALSE, FALSE, Sections, "Related Genes", FALSE)
PUnparsable == Page(FALSE, FALSE, {}, "none", TRUE)

\* The files and the locals hold the name of a content; Markup gives what
\* BeautifulSoup finds in it.
Markup(n) ==
    CASE n = "full" -> PFull
      [] n = "warn_div" -> PWarnDiv
      [] n = "warn_h2" -> PWarnH2
      [] n = "no_info" -> PNoInfo
      [] n = "faulty" -> PFaulty
      [] n = "unparsable" -> PUnparsable
      [] OTHER -> Doc(n)

\* what a snapshot file can hold
Pages == {"full", "warn_div", "warn_h2", "no_info", "faulty", "unparsable"}

\* what the site can serve
Served == {"full", "warn_div", "no_info", "faulty", "unparsable"}

\* `if html_content:`
Truthy(c) == c.kind = "page"

MsgNone == "None"
MsgResearch == "Insufficient published research for high-quality article"
MsgSources == "Insufficient scholarly sources found"
MsgMissing == "Missing gene info"
MsgParse == "Error validating HTML"
MsgNoHtml == "HTML could not be fetched"
MsgExtract == "Extraction error"

Verdict(ok, msg, raised) == [is_valid |-> ok, error_message |-> msg, raised |-> raised]

\* wikicrow validate_html: no check of the Info header
validate_html_wikicrow(c) ==
    IF ~Truthy(c) THEN Verdict(FALSE, MsgNone, FALSE)
    ELSE IF c.unparsable THEN Verdict(FALSE, MsgParse, FALSE)
    ELSE IF c.warn_div THEN Verdict(TRUE, MsgResearch, FALSE)
    ELSE IF c.warn_h2 THEN Verdict(TRUE, MsgSources, FALSE)
    ELSE Verdict(TRUE, MsgNone, FALSE)

\* scraper validate_html: BeautifulSoup is called outside any try
validate_html_scraper(c) ==
    IF ~Truthy(c) THEN Verdict(FALSE, MsgNone, FALSE)
    ELSE IF c.unparsable THEN Verdict(FALSE, MsgParse, TRUE)
    ELSE IF c.warn_div THEN Verdict(TRUE, MsgResearch, FALSE)
    ELSE IF c.warn_h2 THEN Verdict(TRUE, MsgSources, FALSE)
    ELSE IF "Info" \in c.sections THEN Verdict(TRUE, MsgNone, FALSE)
    ELSE Verdict(FALSE, MsgMissing, FALSE)

validate_html(p, c) ==
    IF p = "wikicrow" THEN validate_html_wikicrow(c) ELSE validate_html_scraper(c)

----------------------------------------------------------------------------
(* Extracted records *)

KeysOf(s) ==
    CASE s = "Info" -> {"gene_names", "gene_alias", "gene_type"}
      [] s = "Gene Position (hg19)" -> {"gene_position"}
      [] s = "Related Genes" -> {"related_genes"}
      [] s = "Overview" -> {"overview"}
      [] s = "Structure" -> {"structure"}
      [] s = "Functions" -> {"functions"}
      [] s = "Interactions" -> {"interactions"}
      [] s = "Clinical Significance" -> {"clinical significance"}
      [] s = "References" -> {"references"}

\* the headers whose enclosing divs are followed without a check, in both
\* scripts: find_parent('div') of a header outside any div is None
Fragile == {"Info", "Gene Position (hg19)", "Related Genes"}

\* does the extraction of c raise (a header outside the expected nesting)?
Faults(c) == c.fault_at \in c.sections

\* an extraction that ends at the first header it does not find
Reached_to_first_gap(c) ==
    {s \in c.sections :
        \A i \in 1..SectionIndex(s) : SectionOrder[i] \in c.sections}
\* the sections whose keys are in data when extract_data ends or raises
Reached(c) ==
    {s \in c.sections : ~Faults(c) \/ SectionIndex(s) < SectionIndex(c.fault_at)}

\* a JSON object: kind "record", or "absent" for no file / Python None
Record(g, e, ks) == [kind |-> "record", gene_name |-> g, error |-> e, keys |-> ks]
NoRecord == [kind |-> "absent", gene_name |-> "", error |-> MsgNone, keys |-> {}]

Extracted(d, e, raised) == [data |-> d, error |-> e, raised |-> raised]

\* an extraction that notes the warning and goes on to the sections
extract_data_no_return(p, c, g) ==
    IF ~Truthy(c) THEN Extracted(NoRecord, MsgNoHtml, FALSE)
    ELSE IF c.unparsable
         THEN IF p = "wikicrow"
              THEN Extracted(Record(g, MsgExtract, {}), MsgExtract, FALSE)
              ELSE Extracted(NoRecord, MsgNone, TRUE)
    ELSE Extracted(Record(g, IF c.warn_div THEN MsgResearch
                             ELSE IF c.warn_h2 THEN MsgSources ELSE MsgNone,
                          UNION {KeysOf(s) : s \in c.sections}),
                   MsgNone, FALSE)
\* extract_data(html_content, gene_name) -> (data, error), or an exception
extract_data(p, c, g) ==
    IF ~Truthy(c) THEN Extracted(NoRecord, MsgNoHtml, FALSE)
    ELSE IF c.unparsable  \* BeautifulSoup raises: caught in wikicrow only
         THEN IF p = "wikicrow"
              THEN Extracted(Record(g, MsgExtract, {}), MsgExtract, FALSE)
              ELSE Extracted(NoRecord, MsgNone, TRUE)
    ELSE IF c.warn_div THEN Extracted(Record(g, MsgResearch, {}), MsgNone, FALSE)
    ELSE IF c.warn_h2 THEN Extracted(Record(g, MsgSources, {}), MsgNone, FALSE)
    ELSE IF ~Faults(c)
         THEN Extracted(Record(g, MsgNone, UNION {KeysOf(s) : s \in Reached(c)}),
                        MsgNone, FALSE)
    ELSE IF p = "wikicrow"
         THEN Extracted(Record(g, MsgExtract, UNION {KeysOf(s) : s \in Reached(c)}),
                        MsgExtract, FALSE)
    ELSE Extracted(NoRecord, MsgNone, TRUE)

\* process_gene after extract_data: the error is put into the record
WithError(x, g) ==
    IF x.error = MsgNone THEN x.data
    ELSE IF x.data.kind = "record" THEN [x.data EXCEPT !.error = x.error]
    ELSE Record(g, x.error, {})

----------------------------------------------------------------------------
(* The initial state: a script about to run over gene_df, with whatever an *)
(* earlier run or the user left in the data directories                    *)

BiogridLimit == 1  \* Semaphore(1)
MinInterval == 1   \* process_genes: max(0, 1 - time_since_last_request), in seconds
GeneMaxRetries == 5  \* fetch_gene_data: max_retries = 5
BackoffCap == 10     \* fetch_gene_data: delay = min(2 ** attempt, 10)

Limits(p) == IF p = "biogrid" THEN {BiogridLimit} ELSE 1..MaxLimit

\* an artifact a previous complete run left
OldRecord(g) == Record(g, MsgNone, UNION {KeysOf(s) : s \in Sections})

\* a CSV file: its data rows (their scores), or no file
Csv(rows) == [exists |-> TRUE, rows |-> rows]
NoCsv == [exists |-> FALSE, rows |-> <<>>]
OldCsv == Csv(<<7>>)

\* the snapshot and the JSON of one gene before the first run
DiskStates ==
    {<<h, "absent">> : h \in {Absent, "unreadable", "empty"} \cup Pages}
      \cup {<<Absent, "record">>, <<"full", "record">>}

\* the data directories before the run: files for the first gene of gene_df
FirstDisks == {d \in [Genes -> DiskStates] : \A g \in Genes \ {"BRCA1"} : d[g] = <<Absent, "absent">>}

\* gene_df up to the naming of the genes and the order of the rows
GeneLists ==
    {l \in [Tasks -> Genes] :
        /\ l[1] = "BRCA1"
        /\ \A i, j \in Tasks : (i < j /\ l[i] = "LOWDATA") => l[j] = "LOWDATA"}

\* the values of a run that has not started
Zeros == [t \in Tasks |-> 0]
NoOps == [t \in Tasks |-> {}]
NoNaps == [t \in Tasks |-> <<>>]
NoOutcome == [t \in Tasks |-> "none"]
AllAt(at) == [t \in Tasks |-> at]
FirstPc(p) == AllAt(IF p = "mygene" THEN "unused" ELSE "pending")
FirstBatchPc(p) == IF p = "mygene" THEN "loop" ELSE "unused"

FreshHist ==
    /\ tries = Zeros
    /\ naps = NoNaps
    /\ oplog = NoOps
    /\ outcome = NoOutcome
    /\ seen = AllAt("unseen")

FreshTasks(p) ==
    /\ cur = 0
    /\ sem = limit
    /\ pc = FirstPc(p)
    /\ attempt = Zeros
    /\ browser = AllAt("none")
    /\ result = AllAt(PyNone)
    /\ html_content = AllAt(PyNone)

\* no function has been called on its own
NoContent == Doc("none")
NotCalled ==
    [called |-> "nothing", verdict |-> Verdict(FALSE, MsgNone, FALSE),
     extracted |-> Extracted(NoRecord, MsgNone, FALSE)]

\* mygene main() before its loop: last_request_time = {}, so the first
\* process_genes sees the whole epoch as elapsed
FreshBatches(p) ==
    /\ m_i = 0
    /\ m_pc = FirstBatchPc(p)
    /\ m_attempt = 0
    /\ m_since = MinInterval
    /\ m_hist = <<>>

\* the start of a run whose fetch_html is given a max_retries of 1..most
Start(most) ==
    /\ prog \in Programs
    /\ max_retries \in (IF prog \in PageProgs THEN 1..most ELSE {1})
    /\ limit \in (IF prog = "mygene" THEN {1} ELSE Limits(prog))
    /\ genes \in GeneLists
    /\ run = 1
    /\ last_end = "none"
    /\ main = "running"
    /\ FreshTasks(prog)
    /\ \E d \in FirstDisks :
          /\ html_file = [g \in Genes |-> IF prog \in PageProgs THEN d[g][1] ELSE Absent]
          /\ json_file = [g \in Genes |->
                IF prog \in PageProgs \cup {"mygene"} /\ d[g][2] = "record"
                THEN OldRecord(g) ELSE NoRecord]
          /\ csv_file = [g \in Genes |->
                IF prog = "biogrid" /\ d[g][2] = "record" THEN OldCsv ELSE NoCsv]
    /\ start_files = <<html_file, json_file, csv_file>>
    /\ FreshHist
    /\ FreshBatches(prog)
    /\ f_in = NoContent
    /\ f_out = NotCalled
    /\ tsv_data = <<>>

Init == Start(MaxRetries)

----------------------------------------------------------------------------
(* asyncio: the semaphore and the scheduling of the coroutines *)

Terminal == {"done", "raised", "cancelled"}

\* a semaphore that never makes a caller wait
CanAcquire_always(v) == TRUE
\* Semaphore.acquire proceeds only while _value > 0
CanAcquire(v) == v > 0

\* a release that is skipped when the body raised
SemAfterExit_leak(v, how) == IF how = "raised" THEN v ELSE v + 1
\* Semaphore.release in __aexit__, run on every way out of `async with`
SemAfterExit(v, how) == v + 1

\* the positions where a coroutine is suspended in an await
IsAwait(p, at) ==
    \/ at = "pending"
    \/ at \in Terminal
    \/ p = "wikicrow" /\ at \in {"launch", "load", "backoff", "close"}
    \/ p = "scraper" /\ at \in {"load", "backoff"}

CurAfter(p, t, at) == IF IsAwait(p, at) THEN 0 ELSE t

\* the coroutine goes on to position `at` with attempt a, pending result r
\* and html_content c, still holding its slot
Step(t, at, a, r, c) ==
    /\ pc' = [pc EXCEPT ![t] = at]
    /\ cur' = CurAfter(prog, t, at)
    /\ attempt' = [attempt EXCEPT ![t] = a]
    /\ result' = [result EXCEPT ![t] = r]
    /\ html_content' = [html_content EXCEPT ![t] = c]
    /\ UNCHANGED <<sem, outcome>>

\* the coroutine leaves `async with semaphore`: by return ("done") or by an
\* exception that nothing caught ("raised"); its locals are gone
Exit(t, how, oc) ==
    /\ pc' = [pc EXCEPT ![t] = how]
    /\ cur' = 0
    /\ sem' = SemAfterExit(sem, how)
    /\ attempt' = [attempt EXCEPT ![t] = 0]
    /\ result' = [result EXCEPT ![t] = PyNone]
    /\ html_content' = [html_content EXCEPT ![t] = PyNone]
    /\ outcome' = [outcome EXCEPT ![t] = oc]

Log(t, ops) == oplog' = [oplog EXCEPT ![t] = @ \cup ops]

\* `async with semaphore:` entered
Acquire(t) ==
    /\ prog \in AsyncProgs /\ main = "running"
    /\ pc[t] = "pending" /\ cur = 0
    /\ CanAcquire(sem)
    /\ sem' = sem - 1
    /\ pc' = [pc EXCEPT ![t] = IF prog = "biogrid" THEN "request" ELSE "cache"]
    /\ cur' = t
    /\ UNCHANGED <<cfgVars, main, pageVars, fileVars, histVars, mVars>>

----------------------------------------------------------------------------
(* process_gene of the two page scrapers: the cache check *)

\* a cache check that never sees the JSON file
JsonExists_never(f) == FALSE
\* os.path.exists(json_filename)
JsonExists(f) == f.kind # "absent"

\* a cache check that never sees the snapshot
HtmlExists_never(f) == FALSE
\* os.path.exists(html_filename)
HtmlExists(f) == f # "absent"

\* fetch_html(url) is called: the first attempt is next
ToFetch(t) == Step(t, "launch", 0, PyNone, PyNone)

\* what the cache check finds for a gene on disk
Found(p, jf, hf) ==
    IF JsonExists(jf) THEN "json"
    ELSE IF ~HtmlExists(hf) THEN "no_snapshot"
    ELSE IF hf = "unreadable" THEN "unreadable"
    ELSE IF validate_html(p, Markup(hf)).raised THEN "validate_raised"
    ELSE IF validate_html(p, Markup(hf)).is_valid THEN "accepted"
    ELSE "rejected"

\* From `async with` to the first await: the JSON check, then the snapshot
\* check with its read, validation, extraction and JSON write.
CacheCheck(t) ==
    /\ prog \in PageProgs /\ pc[t] = "cache" /\ cur = t
    /\ LET g == genes[t]
           hf == html_file[g]
           found == Found(prog, json_file[g], hf)
           x == extract_data(prog, Markup(hf), g)
           rd == {"read_html"}
           rv == {"read_html", "validate"}
           rvx == {"read_html", "validate", "extract"}
       IN
       /\ seen' = [seen EXCEPT ![t] = found]
       /\ UNCHANGED <<cfgVars, main, browser, html_file, csv_file, tries, naps, mVars>>
       /\ \/ /\ found = "json"
             /\ Exit(t, "done", "cached") /\ Log(t, {})
             /\ UNCHANGED json_file
          \/ /\ found = "no_snapshot"
             /\ ToFetch(t) /\ Log(t, {"fetch"})
             /\ UNCHANGED json_file
          \/ /\ found = "unreadable"
             /\ IF prog = "wikicrow"
                THEN ToFetch(t) /\ Log(t, rd \cup {"fetch"})
                ELSE Exit(t, "raised", "read_raised") /\ Log(t, rd)
             /\ UNCHANGED json_file
          \/ /\ found = "validate_raised"
             /\ Exit(t, "raised", "validate_raised") /\ Log(t, rv)
             /\ UNCHANGED json_file
          \/ /\ found = "rejected"
             /\ ToFetch(t) /\ Log(t, rv \cup {"fetch"})
             /\ UNCHANGED json_file
          \/ /\ found = "accepted" /\ x.raised
             /\ Exit(t, "raised", "extract_raised") /\ Log(t, rvx)
             /\ UNCHANGED json_file
          \/ /\ found = "accepted" /\ ~x.raised
             /\ json_file' = [json_file EXCEPT ![g] = x.data]
             /\ Exit(t, "done", "snapshot") /\ Log(t, rvx \cup {"write_json"})
          \/ /\ found = "accepted" /\ ~x.raised  \* open(json_filename, 'w') raises
             /\ UNCHANGED json_file
             /\ IF prog = "wikicrow"
                THEN ToFetch(t) /\ Log(t, rvx \cup {"fetch"})
                ELSE Exit(t, "raised", "write_raised") /\ Log(t, rvx)

----------------------------------------------------------------------------
(* fetch_html of the two page scrapers *)

\* the coroutine is the one the event loop can run now
Runnable(t) == cur = (IF IsAwait(prog, pc[t]) THEN 0 ELSE t)

RECURSIVE Pow2(_)
Pow2(n) == IF n = 0 THEN 1 ELSE 2 * Pow2(n - 1)

Min(a, b) == IF a <= b THEN a ELSE b

\* asyncio.sleep(2 ** attempt): the seconds slept after failed attempt k
PageDelay(k) == Pow2(k)

\* attempt == max_retries - 1
LastAttempt(a, m) == a = m - 1

\* a finally clause that closes nothing
NeedsClose_never(b) == FALSE
\* the finally clause: wikicrow `if browser:`, scraper a driver always exists
NeedsClose(b) == b = "open"

\* the loop goes on, or fetch_html returns r to process_gene
Resume(t, r) ==
    IF r = "retry"
    THEN Step(t, "launch", attempt[t] + 1, PyNone, PyNone)
    ELSE Step(t, "fetched", 0, PyNone, r)

\* an attempt without a finally clause: the session is left as it is
AfterAttempt_no_finally(t, r) == Resume(t, r)
\* the try/except body of the attempt ends with r pending; finally comes next
AfterAttempt(t, r) ==
    IF NeedsClose(browser[t])
    THEN Step(t, "close", attempt[t], r, PyNone)
    ELSE Resume(t, r)

\* what the except clause does with a failed attempt
AfterFailure(t) ==
    IF LastAttempt(attempt[t], max_retries)
    THEN AfterAttempt(t, PyNone)
    ELSE Step(t, "backoff", attempt[t], PyNone, PyNone)

\* wikicrow `await launch(...)`, scraper `webdriver.Firefox(...)` before the try
Launch(t) ==
    /\ prog \in PageProgs /\ pc[t] = "launch" /\ Runnable(t)
    /\ tries' = [tries EXCEPT ![t] = @ + 1]
    /\ UNCHANGED <<cfgVars, main, fileVars, naps, seen, mVars>>
    /\ \/ /\ browser' = [browser EXCEPT ![t] = "open"]
          /\ Step(t, "load", attempt[t], PyNone, PyNone)
          /\ Log(t, {"launch"})
       \/ /\ browser' = [browser EXCEPT ![t] = "none"]
          /\ Log(t, {})
          /\ IF prog = "wikicrow"
             THEN Step(t, IF LastAttempt(attempt[t], max_retries) THEN "fetched" ELSE "backoff",
                       attempt[t], PyNone, PyNone)
             ELSE Exit(t, "raised", "launch_raised")

\* newPage .. goto .. waitForSelector .. content, or _get_page_html in a thread
Load(t) ==
    /\ prog \in PageProgs /\ pc[t] = "load" /\ Runnable(t)
    /\ UNCHANGED <<cfgVars, main, fileVars, browser, histVars, mVars>>
    /\ \/ \E p \in Served : AfterAttempt(t, p)
       \/ AfterFailure(t)

\* `await asyncio.sleep(2 ** attempt)` in the except clause
Backoff(t) ==
    /\ prog \in PageProgs /\ pc[t] = "backoff" /\ Runnable(t)
    /\ naps' = [naps EXCEPT ![t] = Append(@, PageDelay(attempt[t]))]
    /\ AfterAttempt(t, "retry")
    /\ UNCHANGED <<cfgVars, main, fileVars, browser, tries, oplog, seen, mVars>>

\* finally: `await browser.close()` in a try, `driver.quit()` bare
Close(t) ==
    /\ prog \in PageProgs /\ pc[t] = "close" /\ Runnable(t)
    /\ UNCHANGED <<cfgVars, main, fileVars, tries, naps, oplog, seen, mVars>>
    /\ \/ /\ browser' = [browser EXCEPT ![t] = "closed"]
          /\ Resume(t, result[t])
       \/ /\ browser' = [browser EXCEPT ![t] = "close_failed"]
          /\ IF prog = "wikicrow"
             THEN Resume(t, result[t])
             ELSE Exit(t, "raised", "close_raised")

----------------------------------------------------------------------------
(* process_gene after fetch_html returned: save, validate, extract, persist *)

\* the session handle of fetch_html is gone with its frame; a session that
\* is still open stays open
Settled(b) == IF b = "open" THEN "open" ELSE "none"

\* a validation that never stops the pipeline
SkipsJson_never(v) == FALSE
\* `if not is_valid:` log "skipping json output" and return
SkipsJson(v) == ~v.is_valid

AfterFetch(t) ==
    /\ prog \in PageProgs /\ pc[t] = "fetched" /\ Runnable(t)
    /\ browser' = [browser EXCEPT ![t] = Settled(@)]
    /\ LET g == genes[t]
           n == html_content[t]
           c == Markup(n)
           v == validate_html(prog, c)
           x == extract_data(prog, c, g)
           rec == WithError(x, g)
           \* the JSON write and the end of process_gene
           Persist(ops, oc, unsaved) ==
               \/ /\ json_file' = [json_file EXCEPT ![g] = rec]
                  /\ Exit(t, "done", oc)
                  /\ Log(t, ops \cup {"write_json"})
               \/ /\ UNCHANGED json_file  \* open(json_filename, 'w') raises
                  /\ Log(t, ops)
                  /\ IF prog = "wikicrow"
                     THEN Exit(t, "done", unsaved)
                     ELSE Exit(t, "raised", "write_raised")
       IN
       /\ UNCHANGED <<cfgVars, main, csv_file, tries, naps, seen, mVars>>
       /\ \/ /\ ~Truthy(c)
             /\ Persist({"extract"}, "fetch_failed", "fetch_failed")
             /\ UNCHANGED html_file
          \/ /\ Truthy(c)  \* open(html_filename, 'w') raises
             /\ IF prog = "wikicrow"
                THEN Exit(t, "done", "save_failed")
                ELSE Exit(t, "raised", "write_raised")
             /\ Log(t, {})
             /\ UNCHANGED <<html_file, json_file>>
          \/ /\ Truthy(c)
             /\ html_file' = [html_file EXCEPT ![g] = n]
             /\ \/ /\ v.raised
                   /\ Exit(t, "raised", "validate_raised")
                   /\ Log(t, {"write_html", "validate"})
                   /\ UNCHANGED json_file
                \/ /\ ~v.raised /\ SkipsJson(v)
                   /\ Exit(t, "done", "invalid")
                   /\ Log(t, {"write_html", "validate"})
                   /\ UNCHANGED json_file
                \/ /\ ~v.raised /\ ~SkipsJson(v) /\ x.raised
                   /\ Exit(t, "raised", "extract_raised")
                   /\ Log(t, {"write_html", "validate", "extract"})
                   /\ UNCHANGED json_file
                \/ /\ ~v.raised /\ ~SkipsJson(v) /\ ~x.raised
                   /\ Persist({"write_html", "validate", "extract"},
                              "persisted", "json_failed")

----------------------------------------------------------------------------
(* main(): asyncio.gather under asyncio.run, and the next run of the script *)

Holding(t) == pc[t] \notin ({"pending", "unused"} \cup Terminal)

\* every coroutine returned: gather returns
Join ==
    /\ prog \in AsyncProgs /\ main = "running" /\ cur = 0
    /\ \A t \in Tasks : pc[t] = "done"
    /\ main' = "done"
    /\ UNCHANGED <<cfgVars, cur, sem, pc, pageVars, fileVars, histVars, mVars>>

\* gather re-raises the first exception of a coroutine in main(); main ends and
\* asyncio.run cancels every coroutine that has not finished, whose finally
\* clauses and __aexit__ then run.
Abort ==
    /\ prog \in AsyncProgs /\ main = "running" /\ cur = 0
    /\ \E t \in Tasks : pc[t] = "raised"
    /\ main' = IF prog = "wikicrow" THEN "done" ELSE "failed"
    /\ pc' = [t \in Tasks |-> IF pc[t] \in Terminal THEN pc[t] ELSE "cancelled"]
    /\ outcome' = [t \in Tasks |-> IF pc[t] \in Terminal THEN outcome[t] ELSE "cancelled"]
    /\ browser' = [t \in Tasks |->
          IF pc[t] \notin Terminal /\ browser[t] = "open" THEN "closed" ELSE browser[t]]
    /\ sem' = sem + Cardinality({t \in Tasks : Holding(t)})
    /\ attempt' = Zeros /\ result' = AllAt(PyNone) /\ html_content' = AllAt(PyNone)
    /\ UNCHANGED <<cfgVars, cur, fileVars, tries, naps, oplog, seen, mVars>>

\* the script is started again over the same gene_df and directories
NextRun ==
    /\ main \in {"done", "failed"} /\ run = 1
    /\ UNCHANGED <<prog, max_retries, limit, genes, fileVars, f_in, f_out>>
    /\ run' = 2
    /\ last_end' = main
    /\ main' = "running"
    /\ start_files' = <<html_file, json_file, csv_file>>
    /\ cur' = 0 /\ sem' = limit /\ pc' = FirstPc(prog)
    /\ attempt' = Zeros /\ browser' = AllAt("none")
    /\ result' = AllAt(PyNone) /\ html_content' = AllAt(PyNone)
    /\ tries' = Zeros /\ naps' = NoNaps /\ oplog' = NoOps /\ outcome' = NoOutcome
    /\ seen' = AllAt("unseen")
    /\ m_i' = 0 /\ m_pc' = FirstBatchPc(prog) /\ m_attempt' = 0
    /\ m_since' = MinInterval /\ m_hist' = <<>>
    /\ tsv_data' = <<>>

----------------------------------------------------------------------------
(* biogrid: fetch_and_process_biogrid_data *)

\* the "Quantitative Score" column as BioGRID sends it; numbers in tenths
ScoreTexts == {"-", "0", "3.2", "-1"}

\* .replace("-", "0").astype(float)
ScoreOf(s) ==
    CASE s = "-" -> 0
      [] s = "0" -> 0
      [] s = "3.2" -> 32
      [] s = "-1" -> -10

\* a response with one row of each score
MixedRows == << "-", "0", "3.2", "-1" >>

RowLists == UNION {[1..n -> ScoreTexts] : n \in 0..MaxRows} \cup {MixedRows}

RECURSIVE InsertDesc(_, _)
InsertDesc(x, sorted) ==
    IF sorted = <<>> THEN <<x>>
    ELSE IF x >= Head(sorted) THEN <<x>> \o sorted
    ELSE <<Head(sorted)>> \o InsertDesc(x, Tail(sorted))

RECURSIVE SortDesc(_)
\* df.sort_values("Quantitative Score", ascending=False)
SortDesc(xs) == IF xs = <<>> THEN <<>> ELSE InsertDesc(Head(xs), SortDesc(Tail(xs)))

\* df[df["Quantitative Score"] > 0]
Positive(xs) == SelectSeq(xs, LAMBDA x : x > 0)

\* pd.read_csv(tsv_file, sep="\t", comment="#") with the default header=0:
\* the first line of the response names the columns, the rest are the rows
\* of df (the names are then replaced by column_names)
read_csv(lines) == Tail(lines)

\* the rows of the CSV written for the rows of df
FilterRows(rows) == Positive(SortDesc([i \in 1..Len(rows) |-> ScoreOf(rows[i])]))

\* The whole body under `async with`: it has no await, requests.get blocks.
Request(t) ==
    /\ prog = "biogrid" /\ pc[t] = "request" /\ cur = t
    /\ tries' = [tries EXCEPT ![t] = @ + 1]
    /\ UNCHANGED <<cfgVars, main, browser, html_file, json_file, naps, seen,
                   m_i, m_pc, m_attempt, m_since, m_hist, f_in, f_out>>
    /\ \/ \E lines \in RowLists :
             /\ tsv_data' = lines
             /\ IF lines = <<>>
                THEN \* read_csv raises EmptyDataError
                     /\ UNCHANGED csv_file
                     /\ Exit(t, "done", "empty_data")
                     /\ Log(t, {"fetch"})
                ELSE /\ csv_file' = [csv_file EXCEPT ![genes[t]] =
                                        Csv(FilterRows(read_csv(lines)))]
                     /\ Exit(t, "done", "persisted")
                     /\ Log(t, {"fetch", "write_csv"})
       \/ \E oc \in {"request_failed", "unexpected"} :
             /\ UNCHANGED <<csv_file, tsv_data>>
             /\ Exit(t, "done", oc)
             /\ Log(t, {"fetch"})

----------------------------------------------------------------------------
(* mygene: main, process_genes, fetch_gene_data, save_gene_json *)

NBatches == (NTasks + BatchSize - 1) \div BatchSize

\* gene_names[i:i+batch_size] for the batch numbered i from 0
Batch(i) == {genes[k] : k \in {k \in Tasks : (k - 1) \div BatchSize = i}}

\* range(0, len(gene_names), batch_size): the next batch, or the end of main
NextBatch ==
    /\ prog = "mygene" /\ main = "running" /\ m_pc = "loop"
    /\ IF m_i < NBatches
       THEN m_pc' = "rate" /\ UNCHANGED main
       ELSE m_pc' = "end" /\ main' = "done"
    /\ UNCHANGED <<cfgVars, cur, sem, pc, pageVars, fileVars, histVars, m_i,
                   m_attempt, m_since, m_hist, f_in, f_out, tsv_data>>

\* a rate limit that never waits
WaitTime_none(e) == 0
\* wait_time = max(0, 1 - time_since_last_request)
WaitTime(e) == IF MinInterval - e > 0 THEN MinInterval - e ELSE 0

\* process_genes up to fetch_gene_data: e is the time seen since the last
\* call returned (1: a second or more), and the sleep makes up the rest
RateWait ==
    /\ prog = "mygene" /\ m_pc = "rate"
    /\ \E e \in m_since..MinInterval : m_since' = e + WaitTime(e)
    /\ m_pc' = "query"
    /\ m_attempt' = 0
    /\ m_hist' = Append(m_hist, [batch |-> m_i, gap |-> m_since', attempts |-> 0,
                                 sleeps |-> <<>>, returned |-> FALSE, ok |-> FALSE,
                                 cause |-> "none", hits |-> {}])
    /\ UNCHANGED <<cfgVars, main, cur, sem, pc, pageVars, fileVars, histVars, m_i,
                   f_in, f_out, tsv_data>>

\* delay = min(2 ** attempt, 10)
GeneDelay(k) == Min(Pow2(k), BackoffCap)

\* the history record of the call in progress, with one more attempt
Attempted(slept, returned, ok, cause) ==
    [m_hist EXCEPT ![Len(m_hist)] =
        [@ EXCEPT !.attempts = @ + 1, !.sleeps = @ \o slept, !.returned = returned,
                  !.ok = ok, !.cause = cause]]

\* a retry loop that sleeps and tries again after every failure
Retryable_all(cause) == TRUE
\* `if e.response.status_code == 429:` under `except httpx.HTTPStatusError`
Retryable(cause) == cause = "429"

\* a process_genes that stamps the time only after a fetch with results
QueryFailed_no_stamp ==
    /\ m_pc' = "loop" /\ m_i' = m_i + 1
    /\ UNCHANGED <<m_since, m_attempt, json_file>>
\* fetch_gene_data returned (None, gene_names): process_genes stamps the
\* time, saves nothing and returns
QueryFailed ==
    /\ m_pc' = "loop" /\ m_i' = m_i + 1 /\ m_since' = 0
    /\ UNCHANGED <<m_attempt, json_file>>

\* one attempt of fetch_gene_data, and on its return the rest of process_genes
Query ==
    /\ prog = "mygene" /\ m_pc = "query"
    /\ UNCHANGED <<cfgVars, main, cur, sem, pc, pageVars, html_file, csv_file, histVars,
                   f_in, f_out, tsv_data>>
    /\ \/ \E hits \in SUBSET Batch(m_i) : \E saved \in SUBSET hits :
             \* querymany returned; save_gene_json for every hit, a failed
             \* write is logged
             /\ m_hist' = [Attempted(<<>>, TRUE, TRUE, "none")
                              EXCEPT ![Len(m_hist)].hits = hits]
             /\ json_file' = [g \in Genes |->
                   IF g \in saved THEN Record(g, MsgNone, {"query"}) ELSE json_file[g]]
             /\ m_pc' = "loop" /\ m_i' = m_i + 1 /\ m_since' = 0
             /\ UNCHANGED m_attempt
       \/ \E cause \in {"429", "status", "exception"} :
             \* querymany raised: HTTPStatusError 429, another HTTPStatusError,
             \* or any other exception
             IF Retryable(cause)
             THEN /\ m_hist' = Attempted(<<GeneDelay(m_attempt)>>,
                                         ~(m_attempt + 1 < GeneMaxRetries), FALSE, cause)
                  /\ IF m_attempt + 1 < GeneMaxRetries  \* sleep, then `continue`
                     THEN /\ m_attempt' = m_attempt + 1
                          /\ UNCHANGED <<m_pc, m_i, m_since, json_file>>
                     ELSE QueryFailed
             ELSE /\ m_hist' = Attempted(<<>>, TRUE, FALSE, cause)
                  /\ QueryFailed

----------------------------------------------------------------------------

Next ==
    \/ \E t \in Tasks : Acquire(t)
    \/ \E t \in Tasks : CacheCheck(t)
    \/ \E t \in Tasks : Launch(t)
    \/ \E t \in Tasks : Load(t)
    \/ \E t \in Tasks : Backoff(t)
    \/ \E t \in Tasks : Close(t)
    \/ \E t \in Tasks : AfterFetch(t)
    \/ \E t \in Tasks : Request(t)
    \/ Join
    \/ Abort
    \/ NextBatch
    \/ RateWait
    \/ Query

\* one run of one script
Spec == Init /\ [][Next]_vars

----------------------------------------------------------------------------
(* Two runs of one script, the second over what the first left on disk *)

InitTwoRuns ==
    /\ Init
    /\ limit = 1
    /\ \A g \in Genes :
          /\ html_file[g] = Absent
          /\ json_file[g] = NoRecord
          /\ csv_file[g] = NoCsv

NextTwoRuns == Next \/ NextRun

TwoRuns == InitTwoRuns /\ [][NextTwoRuns]_vars

----------------------------------------------------------------------------
(* download_genes.py on its own: one run of the batch loop *)

InitBatches == Init /\ prog = "mygene"

NextBatches == NextBatch \/ RateWait \/ Query

Batches == InitBatches /\ [][NextBatches]_vars

----------------------------------------------------------------------------
(* biogrid_scraper.py on its own: one run *)

InitHarvest == Init /\ prog = "biogrid"

NextHarvest ==
    \/ \E t \in Tasks : Acquire(t)
    \/ \E t \in Tasks : Request(t)
    \/ Join

Harvest == InitHarvest /\ [][NextHarvest]_vars

----------------------------------------------------------------------------
(* The retry loops on their own: one run from empty directories, one slot, *)
(* fetch_html given up to MaxBackoffTries attempts                         *)

InitRetryLoops ==
    /\ Start(MaxBackoffTries)
    /\ limit = 1
    /\ \A g \in Genes :
          /\ html_file[g] = Absent
          /\ json_file[g] = NoRecord
          /\ csv_file[g] = NoCsv

RetryLoops == InitRetryLoops /\ [][Next]_vars

----------------------------------------------------------------------------
(* validate_html and extract_data called on their own, over every content *)
(* the model describes                                                     *)

Contents ==
    {Doc("none"), Doc("empty")} \cup
    {Page(wd, wh, secs, fa, up) :
        wd \in BOOLEAN, wh \in BOOLEAN, secs \in SUBSET Sections,
        fa \in {"none"} \cup Fragile, up \in BOOLEAN}

InitFunc ==
    /\ prog \in PageProgs
    /\ max_retries = 1
    /\ limit = 1
    /\ genes = AllAt("BRCA1")
    /\ run = 1
    /\ last_end = "none"
    /\ main = "done"
    /\ cur = 0
    /\ sem = limit
    /\ pc = AllAt("unused")
    /\ attempt = Zeros
    /\ browser = AllAt("none")
    /\ result = AllAt(PyNone)
    /\ html_content = AllAt(PyNone)
    /\ html_file = [g \in Genes |-> Absent]
    /\ json_file = [g \in Genes |-> NoRecord]
    /\ csv_file = [g \in Genes |-> NoCsv]
    /\ start_files = <<html_file, json_file, csv_file>>
    /\ FreshHist
    /\ FreshBatches("none")
    /\ f_in \in Contents
    /\ f_out = NotCalled
    /\ tsv_data = <<>>

\* validate_html(html_content)
CallValidate ==
    /\ f_out.called = "nothing"
    /\ f_out' = [NotCalled EXCEPT !.called = "validate_html",
                                  !.verdict = validate_html(prog, f_in)]
    /\ UNCHANGED <<cfgVars, main, cur, sem, pc, pageVars, fileVars, histVars,
                   m_i, m_pc, m_attempt, m_since, m_hist, f_in, tsv_data>>

\* extract_data(html_content, gene_name)
CallExtract ==
    /\ f_out.called = "nothing"
    /\ f_out' = [NotCalled EXCEPT !.called = "extract_data",
                                  !.extracted = extract_data(prog, f_in, genes[1])]
    /\ UNCHANGED <<cfgVars, main, cur, sem, pc, pageVars, fileVars, histVars,
                   m_i, m_pc, m_attempt, m_since, m_hist, f_in, tsv_data>>

NextFunc == CallValidate \/ CallExtract

FuncSpec == InitFunc /\ [][NextFunc]_vars

----------------------------------------------------------------------------
(* Properties *)

\* C1: in a run with Semaphore(N), the number of pipelines inside the
\* guarded section (cache check, fetch, validate, extract, persist), and so
\* the number of active fetches, never exceeds N.
ConcurrencyBound ==
    prog \in AsyncProgs =>
        /\ Cardinality({t \in Tasks : Holding(t)}) <= limit
        /\ Cardinality({t \in Tasks : pc[t] \in {"launch", "load", "close", "request"}})
              <= limit

\* C1 witness: N pipelines are inside, one of them in a fetch, and another
\* identifier waits for a slot.
ConcurrencyBound_witness ==
    /\ prog \in PageProgs
    /\ Cardinality({t \in Tasks : Holding(t)}) = limit
    /\ \E t \in Tasks : pc[t] = "load"
    /\ \E t \in Tasks : pc[t] = "pending"

\* C2: the failure of one identifier's pipeline never halts or cancels the
\* pipeline of another identifier of the run: beside a pipeline that ended
\* in an exception, no pipeline of another identifier is cancelled.
SiblingsUnaffected ==
    \A t \in Tasks : \A u \in Tasks :
        (genes[u] # genes[t] /\ pc[u] = "raised") => pc[t] # "cancelled"

\* C3: when fetch_html returned no content after max_retries attempts and no
\* artifact existed before, the identifier ends in FetchFailed with no JSON
\* artifact on disk.
FetchFailedLeavesNoJson ==
    \A t \in Tasks :
        ( /\ outcome[t] = "fetch_failed"
          /\ seen[t] = "no_snapshot"
          /\ \A u \in Tasks \ {t} : genes[u] # genes[t] )
        => json_file[genes[t]].kind = "absent"

\* C4: a fetch whose every attempt fails reports failure after exactly
\* max_retries attempts (fetch_html: max_retries, fetch_gene_data: 5),
\* whatever the kind of failure.
RetryCountExact ==
    /\ \A t \in Tasks :
          (pc[t] = "fetched" /\ html_content[t] = PyNone) => tries[t] = max_retries
    /\ \A i \in 1..Len(m_hist) :
          (m_hist[i].returned /\ ~m_hist[i].ok) => m_hist[i].attempts = GeneMaxRetries

\* C5: every exit path of the guarded work releases the slot: the slots
\* held are exactly those of the pipelines still inside, so a terminated
\* pipeline holds none, and none is held when all have terminated.
SlotsReleased ==
    prog \in AsyncProgs =>
        /\ sem = limit - Cardinality({t \in Tasks : Holding(t)})
        /\ (\A t \in Tasks : pc[t] \in Terminal) => sem = limit

\* C5 witness: all pipelines have terminated, one of them by the exception
\* of a session that failed to close, and every slot is free.
SlotsReleased_witness ==
    /\ \A t \in Tasks : pc[t] \in Terminal
    /\ \E t \in Tasks : outcome[t] = "close_raised"
    /\ sem = limit

\* C6: a session launched by an attempt has had its close called by the end
\* of that attempt, on success, on failure and on timeout alike, and a
\* pipeline that is outside the guarded section has no session open.
SessionsClosed ==
    \A t \in Tasks :
        pc[t] \notin {"load", "backoff", "close"} => browser[t] # "open"

\* C6 witness: a pipeline launched a session, every attempt failed, and it
\* has released its slot with the session closed.
SessionsClosed_witness ==
    \E t \in Tasks :
        /\ pc[t] = "done"
        /\ outcome[t] = "fetch_failed"
        /\ "launch" \in oplog[t]
        /\ browser[t] # "open"

\* C7: a second run over the same identifiers and the disk as the first run
\* left it, the first run having returned, performs no fetch and leaves
\* every artifact unchanged, for every harvester and whatever the first
\* run's outcomes were.
SecondRunIdle ==
    (run = 2 /\ last_end = "done") =>
        /\ \A t \in Tasks : tries[t] = 0 /\ "fetch" \notin oplog[t]
        /\ \A i \in 1..Len(m_hist) : m_hist[i].attempts = 0
        /\ <<html_file, json_file, csv_file>> = start_files

\* C8: when the JSON artifact exists at the cache check, process_gene goes
\* to Done in that step with no fetch, no session, no read or validation of
\* the snapshot and no write: both files are unchanged.
CacheHitFrame ==
    [][\A t \in Tasks :
          ( /\ pc[t] = "cache"
            /\ pc'[t] # "cache"
            /\ json_file[genes[t]].kind # "absent" )
          => /\ pc'[t] = "done"
             /\ oplog'[t] = oplog[t]
             /\ tries'[t] = tries[t]
             /\ browser'[t] = browser[t]
             /\ html_file' = html_file
             /\ json_file' = json_file]_vars

\* C8 witness: a pipeline ended on the cache hit, beside a snapshot on disk.
CacheHitFrame_witness ==
    \E t \in Tasks :
        /\ pc[t] = "done"
        /\ outcome[t] = "cached"
        /\ oplog[t] = {}
        /\ html_file[genes[t]] # Absent

\* C9: with no JSON artifact, an accepted snapshot means no fetch and
\* extraction at once; an absent, unreadable or rejected snapshot means a
\* fetch; and a fetch happens in no other case.
SnapshotRouting ==
    \A t \in Tasks :
        seen[t] \notin {"unseen", "json"} =>
            /\ seen[t] = "accepted" =>
                  "fetch" \notin oplog[t] /\ "extract" \in oplog[t]
            /\ seen[t] # "accepted" => "fetch" \in oplog[t]

\* C10: validate_html of both page scrapers: empty or absent content is
\* Invalid; a warning marker gives Warning with its reason, with or without
\* the Info header; the Info header with no warning gives Valid; neither
\* marker gives Invalid.
ValidatorRules ==
    (f_out.called = "validate_html" /\ ~f_in.unparsable) =>
        LET v == f_out.verdict IN
        IF f_in.kind # "page" THEN ~v.is_valid
        ELSE IF f_in.warn_div THEN v.is_valid /\ v.error_message = MsgResearch
        ELSE IF f_in.warn_h2 THEN v.is_valid /\ v.error_message = MsgSources
        ELSE IF "Info" \in f_in.sections THEN v.is_valid /\ v.error_message = MsgNone
        ELSE ~v.is_valid

\* C11: fetched content that validate_html classifies Invalid ends the
\* pipeline with no JSON written; content classified Valid or Warning goes
\* on to extraction.
InvalidStopsValidExtracts ==
    [][\A t \in Tasks :
          LET c == Markup(html_content[t])
              v == validate_html(prog, c)
          IN ( /\ pc[t] = "fetched"
               /\ pc'[t] # "fetched"
               /\ Truthy(c)
               /\ "write_html" \in oplog'[t]
               /\ ~v.raised )
             => IF v.is_valid
                THEN "extract" \in oplog'[t] /\ outcome'[t] # "invalid"
                ELSE /\ json_file' = json_file
                     /\ pc'[t] = "done"
                     /\ outcome'[t] = "invalid"
                     /\ "write_json" \notin oplog'[t]]_vars

\* C11 witness: a pipeline saved the snapshot it fetched, found it Invalid
\* and ended with no JSON on disk.
InvalidStopsValidExtracts_witness ==
    \E t \in Tasks :
        /\ outcome[t] = "invalid"
        /\ html_file[genes[t]] # Absent
        /\ json_file[genes[t]].kind = "absent"

\* C12: a pipeline that reached extraction with validated content never
\* ends by an exception of the extraction: a fault while extracting a
\* section stays inside process_gene, in both page scrapers.
ExtractionNeverEscapes ==
    \A t \in Tasks : outcome[t] # "extract_raised"

\* C13: the delays a fetcher sleeps after the successive failed attempts of
\* one fetch are min(2^k, cap) seconds for k = 0, 1, 2, ..: non-decreasing
\* and never above the cap, in fetch_html and in fetch_gene_data, for every
\* max_retries.
BackoffDelaysCapped ==
    LET Good(d) ==
            /\ \A k \in 1..Len(d) : d[k] = Min(Pow2(k - 1), BackoffCap)
            /\ \A k \in 1..(Len(d) - 1) : d[k] <= d[k + 1]
    IN /\ \A t \in Tasks : Good(naps[t])
       /\ \A i \in 1..Len(m_hist) : Good(m_hist[i].sleeps)

\* C14: a transient failure (timeout, connection error, 5xx, 429) on an
\* attempt that is not the last one is followed by a backoff sleep and
\* another attempt: a fetch that failed on transient errors made all the
\* attempts of its bound, with a sleep between them.
TransientRetried ==
    /\ \A i \in 1..Len(m_hist) :
          (m_hist[i].returned /\ ~m_hist[i].ok) =>
              /\ m_hist[i].attempts = GeneMaxRetries
              /\ Len(m_hist[i].sleeps) >= GeneMaxRetries - 1
    /\ \A t \in Tasks :
          (pc[t] = "fetched" /\ html_content[t] = PyNone) =>
              /\ tries[t] = max_retries
              /\ Len(naps[t]) = max_retries - 1

\* C15: in fetch_gene_data an HTTP status error other than 429 ends the
\* fetch at once, with no sleep, no further attempt and nothing saved; a
\* sleep is made only after a 429, and a 429 before the last attempt is
\* followed by another attempt.
StatusErrorEndsFetch ==
    [][(m_pc = "query" /\ m_hist' # m_hist) =>
          LET h == m_hist[Len(m_hist)]
              n == m_hist'[Len(m_hist')]
          IN /\ n.cause = "status" =>
                   /\ n.returned /\ ~n.ok
                   /\ n.sleeps = h.sleeps
                   /\ m_pc' = "loop"
                   /\ json_file' = json_file
             /\ n.sleeps # h.sleeps => n.cause = "429"
             /\ (n.cause = "429" /\ n.attempts < GeneMaxRetries) =>
                   m_pc' = "query" /\ ~n.returned]_vars

\* C15 witness: a fetch ended on a status error other than 429 after an
\* earlier attempt of the same fetch had met a 429 and slept.
StatusErrorEndsFetch_witness ==
    \E i \in 1..Len(m_hist) :
        /\ m_hist[i].cause = "status"
        /\ m_hist[i].returned
        /\ m_hist[i].attempts = 2
        /\ Len(m_hist[i].sleeps) = 1

\* C16: every call of process_genes to the remote API starts at least
\* min_interval after the previous call returned, whichever batch made that
\* call and whether it succeeded or failed.
CallsSpaced ==
    \A i \in 1..Len(m_hist) : m_hist[i].gap >= MinInterval

\* C16 witness: a second batch made its call, the call of the batch before
\* it having failed.
CallsSpaced_witness ==
    /\ Len(m_hist) >= 2
    /\ m_hist[1].returned /\ ~m_hist[1].ok
    /\ m_hist[2].attempts >= 1

\* C17: within one run the JSON artifact of an identifier is written at
\* most once, for any identifier list given to the run: at most one pipeline
\* that started from no file fetches and persists it.
OneWritePerIdentifier ==
    \A g \in Genes :
        Cardinality({t \in Tasks : /\ genes[t] = g
                                   /\ seen[t] = "no_snapshot"
                                   /\ outcome[t] = "persisted"}) <= 1

\* C18: no two pipelines that are active at the same time target the same
\* paths: two pipelines of one identifier are never both inside the guarded
\* section having both found no file at their cache check, where each goes
\* on to write what the other checked.
NoCheckThenWriteRace ==
    \A t \in Tasks : \A u \in Tasks \ {t} :
        (genes[t] = genes[u] /\ Holding(t) /\ Holding(u))
        => ~(seen[t] = "no_snapshot" /\ seen[u] = "no_snapshot")

\* C19: the run completes only after every identifier has reached a
\* terminal state of its pipeline (cached, fetch failed, invalid or
\* persisted): when main() has ended, every pipeline has returned.
RunEndsAfterAll ==
    main # "running" => \A t \in Tasks : pc[t] \in {"done", "unused"}

\* C20: content with an insufficient-data marker gives a JSON whose only
\* fields are the identifier and the error with the declared reason, also
\* when the content holds the primary sections; short of a failing write,
\* that JSON is written.
WarningRecordOnly ==
    [][\A t \in Tasks :
          LET g == genes[t]
              c == Markup(IF pc[t] = "cache" THEN html_file[g] ELSE html_content[t])
              reason == IF c.warn_div THEN MsgResearch ELSE MsgSources
          IN ( /\ pc[t] \in {"cache", "fetched"}
               /\ pc'[t] # pc[t]
               /\ c.kind = "page" /\ ~c.unparsable
               /\ c.warn_div \/ c.warn_h2
               /\ pc[t] = "cache" => json_file[g].kind = "absent" )
             => /\ \/ json_file' = json_file
                   \/ json_file' = [json_file EXCEPT ![g] = Record(g, reason, {})]
                /\ outcome'[t] \in {"snapshot", "persisted"} =>
                      json_file'[g] = Record(g, reason, {})
                /\ outcome'[t] \in {"none", "snapshot", "persisted", "json_failed",
                                    "save_failed", "write_raised"}]_vars

\* C20 witness: the snapshot on disk holds the warning and all the primary
\* sections, and the JSON beside it holds the identifier and the reason.
WarningRecordOnly_witness ==
    \E t \in Tasks :
        /\ outcome[t] = "persisted"
        /\ html_file[genes[t]] = "warn_div"
        /\ Markup("warn_div").sections = Sections
        /\ json_file[genes[t]] = Record(genes[t], MsgResearch, {})

\* C21: extract_data extracts each section independently: for every subset
\* of the expected sections in a content without a warning marker, the
\* record holds the keys of exactly the sections that are present; an absent
\* section (Related Genes, say) yields no key and drops no other section.
SectionsIndependent ==
    (f_out.called = "extract_data" /\ f_in.kind = "page" /\ ~f_in.unparsable
        /\ ~f_in.warn_div /\ ~f_in.warn_h2) =>
        LET x == f_out.extracted IN
        /\ x.data.kind = "record" =>
              x.data.keys \subseteq UNION {KeysOf(s) : s \in f_in.sections}
        /\ f_in.fault_at \notin f_in.sections =>
              /\ ~x.raised /\ x.error = MsgNone
              /\ x.data = Record(genes[1], MsgNone,
                                 UNION {KeysOf(s) : s \in f_in.sections})

SectionsIndependent_witness ==
    /\ f_out.called = "extract_data"
    /\ f_in = Page(FALSE, FALSE, Sections \ {"Related Genes"}, "none", FALSE)
    /\ "related_genes" \notin f_out.extracted.data.keys
    /\ {"gene_position", "overview", "references"} \subseteq f_out.extracted.data.keys

\* C22: for any list of input rows of the interaction harvester, the CSV
\* written holds exactly the rows whose score, with the sentinel "-" read as
\* 0, is greater than 0, each score a number, in descending order of score;
\* for the scores "-", "0", "3.2", "-1" it holds the one row with 3.2.
ScoresFiltered ==
    [][\A t \in Tasks :
          (prog = "biogrid" /\ pc[t] = "request" /\ outcome'[t] = "persisted") =>
             LET input == tsv_data'
                 out == csv_file'[genes[t]].rows
                 Count(seq, v) == Cardinality({i \in 1..Len(seq) : seq[i] = v})
             IN  /\ csv_file'[genes[t]].exists
                 /\ \A i \in 1..Len(out) : out[i] > 0
                 /\ \A i, j \in 1..Len(out) : i < j => out[i] >= out[j]
                 /\ \A s \in ScoreTexts :
                       ScoreOf(s) > 0 => Count(out, ScoreOf(s)) = Count(input, s)
                 /\ input = MixedRows => out = << 32 >>]_vars

\* C23: in the page scrapers the snapshot of an identifier is written exactly
\* when a fetch for it returned content, and before that content is
\* validated: an identifier whose fetched content is invalid ends the run
\* with the snapshot on disk and no JSON, and the next run classifies that
\* snapshot invalid and fetches again.
SnapshotBeforeValidation ==
    [][/\ html_file' # html_file =>
             \E t \in Tasks :
                /\ prog \in PageProgs /\ pc[t] = "fetched"
                /\ html_content[t] \in Pages
                /\ html_file' = [html_file EXCEPT ![genes[t]] = html_content[t]]
       /\ \A t \in Tasks :
             (prog \in PageProgs /\ pc[t] = "fetched" /\ pc'[t] # "fetched"
                 /\ outcome'[t] \in {"invalid", "validate_raised", "extract_raised",
                                    "persisted", "json_failed"}) =>
                /\ html_content[t] \in Pages
                /\ html_file'[genes[t]] = html_content[t]
       /\ \A t \in Tasks :
             (outcome'[t] = "invalid"
                 /\ \A u \in Tasks \ {t} : genes[u] # genes[t]) =>
                /\ html_file'[genes[t]] \in Pages
                /\ ~validate_html(prog, Markup(html_file'[genes[t]])).is_valid
                /\ json_file'[genes[t]].kind = "absent"
       /\ \A t \in Tasks :
             (prog \in PageProgs /\ pc[t] = "cache" /\ pc'[t] # "cache"
                 /\ json_file[genes[t]].kind = "absent"
                 /\ html_file[genes[t]] \in Pages
                 /\ ~validate_html(prog, Markup(html_file[genes[t]])).raised
                 /\ ~validate_html(prog, Markup(html_file[genes[t]])).is_valid) =>
                /\ seen'[t] = "rejected"
                /\ pc'[t] = "launch"
                /\ "fetch" \in oplog'[t]
      ]_vars

SnapshotBeforeValidation_witness ==
    /\ run = 2 /\ last_end = "done"
    /\ \E t \in Tasks :
          /\ start_files[1][genes[t]] \in Pages
          /\ start_files[2][genes[t]].kind = "absent"
          /\ seen[t] = "rejected"
          /\ tries[t] >= 1

\* C24: in every reachable state of a page-scraper run each pipeline has at
\* most one rendering session open (a new one is launched only when the last
\* one is no longer open), also while it sleeps between attempts; a pipeline
\* has an open session only while it holds a concurrency slot; so the number
\* of open sessions never exceeds the limit N.
SessionsWithinSlots ==
    prog \in PageProgs =>
        LET Open == {t \in Tasks : browser[t] = "open"} IN
        /\ \A t \in Tasks : pc[t] = "launch" => browser[t] # "open"
        /\ \A t \in Open : pc[t] \in {"load", "backoff", "close"}
        /\ Cardinality(Open) <= limit - sem
        /\ Cardinality(Open) <= limit

SessionsWithinSlots_witness ==
    /\ prog \in PageProgs /\ limit = 2 /\ sem = 0
    /\ \A t \in Tasks : browser[t] = "open"
    /\ \E t \in Tasks : pc[t] = "backoff"

\* C25: in every retry loop (fetch_html of the page scrapers, fetch_gene_data
\* of the batch harvester) a backoff sleep is always followed by another
\* attempt: after the final failed attempt the fetch reports failure without
\* sleeping, so a fetch that used up its max_retries attempts has slept
\* exactly max_retries - 1 times.
SleepsBetweenAttempts ==
    /\ \A t \in Tasks :
          (prog \in PageProgs /\ pc[t] = "fetched") =>  \* fetch_html returned
             /\ Len(naps[t]) < tries[t]
             /\ (html_content[t] = PyNone /\ tries[t] = max_retries) =>
                   Len(naps[t]) = max_retries - 1
    /\ \A i \in 1..Len(m_hist) :
          m_hist[i].returned =>
             /\ Len(m_hist[i].sleeps) < m_hist[i].attempts
             /\ (~m_hist[i].ok /\ m_hist[i].attempts = GeneMaxRetries) =>
                   Len(m_hist[i].sleeps) = GeneMaxRetries - 1

\* C26: in the batch harvester, when the fetch of a batch fails
\* (fetch_gene_data returns no results) that batch writes or changes no JSON
\* file, the time of the last call is still stamped, and every later batch
\* is still processed, in list order; a file is written only for an
\* identifier returned as a hit.
FailedBatchWritesNothing ==
    [][prog = "mygene" =>
          /\ m_pc = "query" =>
                LET h == m_hist'[Len(m_hist')] IN
                /\ (h.returned /\ ~h.ok) =>
                      /\ json_file' = json_file
                      /\ m_since' = 0
                      /\ m_pc' = "loop" /\ m_i' = m_i + 1
                /\ ~h.returned => json_file' = json_file
                /\ \A g \in Genes :
                      json_file'[g] # json_file[g] =>
                         h.ok /\ g \in h.hits /\ g \in Batch(m_i)
          /\ m_pc # "query" => json_file' = json_file
          /\ m_pc = "rate" =>
                /\ Len(m_hist') = Len(m_hist) + 1
                /\ m_hist'[Len(m_hist')].batch = Len(m_hist)
          /\ main' = "done" =>
                /\ Len(m_hist') = NBatches
                /\ \A i \in 1..NBatches : m_hist'[i].returned
      ]_vars

FailedBatchWritesNothing_witness ==
    /\ prog = "mygene" /\ main = "done"
    /\ genes[1] # genes[2]
    /\ Len(m_hist) = 2
    /\ m_hist[1].returned /\ ~m_hist[1].ok
    /\ json_file[genes[1]] = start_files[2][genes[1]]
    /\ m_hist[2].ok /\ genes[2] \in m_hist[2].hits
    /\ json_file[genes[2]] = Record(genes[2], MsgNone, {"query"})

====
